---- MODULE Spec2Model ----
(***************************************************************************)
(* Model of package erreur (structured.go): structured errors carrying a   *)
(* message, a cause and zap context fields, their display string, their    *)
(* field list, their JSON document and the chain inspection helpers.       *)
(*                                                                         *)
(* Error values are Go values: a record per dynamic type, the cause held   *)
(* inside the record (an interface value), so a chain is a nested record   *)
(* and is acyclic by construction.  Strings are sequences of characters.   *)
(* A run-time panic (a method call on a nil interface) is the value Panic  *)
(* and propagates through everything computed from it.                     *)
(***************************************************************************)
EXTENDS Integers, Sequences, FiniteSets, TLC

\* e:     the program's error variable (nil at start)
\* out:   the last call made: its name, its arguments and what it returned
\* pc:    "idle", or "loop" while a call of AsStructured is inside its for loop
\* st:    the locals e, s of the running AsStructured call, and whether it broke out
\* steps: the chain nodes the running AsStructured call has visited
VARIABLES e, out, pc, st, steps

vars == <<e, out, pc, st, steps>>

(***************************************************************************)
(* Bounds and input sets                                                   *)
(***************************************************************************)
\* longest error chain the program builds
MaxDepth == 3

\* message texts handed to New, Wrap and String
Messages == {<<"a">>, <<"b">>}

\* the separator Error() puts between a message and its cause's text
Sep == <<":", " ">>

\* the text of a foreign wrapper (an error type of another package)
ForeignText == <<"w">>

\* what a method call on a nil interface value yields
Panic == <<"!panic">>

(***************************************************************************)
(* Error values                                                            *)
(***************************************************************************)
\* the nil error interface value
NilErr == [kind |-> "nil"]

\* type String string
String(m) == [kind |-> "String", text |-> m]

\* type Structured struct { causer error; err error; fields []zap.Field }
Structured(causer, err, fields) ==
    [kind |-> "Structured", causer |-> causer, err |-> err, fields |-> fields]

\* Structured{}: the zero value (var s Structured)
ZeroStructured == Structured(NilErr, NilErr, <<>>)

\* an error of another package that has Unwrap() error; inner may be nil
Foreign(inner) == [kind |-> "Foreign", text |-> ForeignText, inner |-> inner]

\* e.(Structured)
IsStructuredType(x) == x.kind = "Structured"

\* e.(wrapper): the dynamic type has Unwrap() error
IsWrapper(x) == x.kind \in {"Structured", "Foreign"}

(***************************************************************************)
(* zap fields, as zapcore.Field{Key, Type, Integer, String, Interface}     *)
(***************************************************************************)
ZapInt(k, n) ==
    [Key |-> k, Type |-> "Int64", Integer |-> n, Str |-> <<>>, Interface |-> NilErr]

ZapString(k, v) ==
    [Key |-> k, Type |-> "String", Integer |-> 0, Str |-> v, Interface |-> NilErr]

ZapObject(k, v) ==
    [Key |-> k, Type |-> "ObjectMarshaler", Integer |-> 0, Str |-> <<>>, Interface |-> v]

ZapSkip ==
    [Key |-> "", Type |-> "Skip", Integer |-> 0, Str |-> <<>>, Interface |-> NilErr]

ZapError(err) ==
    IF err = NilErr THEN ZapSkip
    ELSE [Key |-> "error", Type |-> "Error", Integer |-> 0, Str |-> <<>>, Interface |-> err]

CodeField == ZapInt("code", 1234)
AddrField == ZapString("addr", <<"x">>)

\* the context field lists callers pass
FieldLists == {<<>>, <<CodeField>>, <<CodeField, AddrField>>, <<AddrField, CodeField>>}

(***************************************************************************)
(* Constructors                                                            *)
(***************************************************************************)
Structure(cause, fields) ==
    IF cause = NilErr THEN NilErr ELSE Structured(cause, NilErr, fields)

New(message, fields) == Structured(NilErr, String(message), fields)

\* Wrap without its nil check
WrapNoNilCheck(cause, message, fields) == Structured(cause, String(message), fields)

Wrap(cause, message, fields) ==
    IF cause = NilErr THEN NilErr ELSE Structured(cause, String(message), fields)

Unwrap(x) == x.causer

Cause(x) == x.causer

\* cause.Unwrap() through the wrapper interface
UnwrapOf(x) == IF x.kind = "Structured" THEN Unwrap(x) ELSE x.inner

(***************************************************************************)
(* Display strings                                                         *)
(***************************************************************************)
\* Go string concatenation; a panicking operand panics the expression
Cat(a, b) == IF a = Panic \/ b = Panic THEN Panic ELSE a \o b

RECURSIVE Error(_), ErrorOf(_)

\* x.Error() dispatched on the dynamic type of the interface value x
ErrorOf(x) ==
    CASE x.kind = "nil" -> Panic
      [] x.kind = "String" -> x.text
      [] x.kind = "Foreign" -> x.text
      [] x.kind = "Structured" -> Error(x)

\* Error() joining message and cause without the separator
ErrorNoSep(x) ==
    IF x.err # NilErr
    THEN IF x.causer = NilErr
         THEN ErrorOf(x.err)
         ELSE Cat(ErrorOf(x.err), ErrorOf(x.causer))
    ELSE ErrorOf(x.causer)

Error(x) ==
    IF x.err # NilErr
    THEN IF x.causer = NilErr
         THEN ErrorOf(x.err)
         ELSE Cat(Cat(ErrorOf(x.err), Sep), ErrorOf(x.causer))
    ELSE ErrorOf(x.causer)

\* the headline taken from the full display string
errorOrCauseFull(x) == Error(x)

errorOrCause(x) ==
    IF x.err # NilErr THEN ErrorOf(x.err) ELSE ErrorOf(x.causer)

(***************************************************************************)
(* Chain inspection                                                        *)
(***************************************************************************)
\* the loop giving up at the first error that is not structured
LoopBodyNoUnwrap(lp) ==
    IF IsStructuredType(lp.e)
    THEN [e |-> lp.e, s |-> lp.e, done |-> TRUE]
    ELSE [e |-> lp.e, s |-> lp.s, done |-> TRUE]

\* the loop without the break after a structured error is found
LoopBodyNoBreak(lp) ==
    IF ~IsWrapper(lp.e)
    THEN [e |-> lp.e, s |-> lp.s, done |-> TRUE]
    ELSE [e |-> UnwrapOf(lp.e), s |-> (IF IsStructuredType(lp.e) THEN lp.e ELSE lp.s),
          done |-> FALSE]

\* one iteration of the for loop of AsStructured over its locals e and s
LoopBody(lp) ==
    IF IsStructuredType(lp.e)
    THEN [e |-> lp.e, s |-> lp.e, done |-> TRUE]
    ELSE IF ~IsWrapper(lp.e)
         THEN [e |-> lp.e, s |-> lp.s, done |-> TRUE]
         ELSE [e |-> UnwrapOf(lp.e), s |-> lp.s, done |-> FALSE]

\* the locals of AsStructured on entry
LoopEntry(x) == [e |-> x, s |-> ZeroStructured, done |-> FALSE]

\* the return reporting any value of type Structured as found
LoopReturnTyped(lp) == [err |-> lp.s, ok |-> IsStructuredType(lp.e)]

\* the return statement of AsStructured
LoopReturn(lp) == [err |-> lp.s, ok |-> lp.s.causer # NilErr \/ lp.s.err # NilErr]

RECURSIVE RunLoop(_)
RunLoop(lp) == IF lp.done THEN lp ELSE RunLoop(LoopBody(lp))

AsStructured(x) == LoopReturn(RunLoop(LoopEntry(x)))

IsStructured(x) == AsStructured(x).ok

\* Field without the search for a structured error
FieldAlwaysPlain(err) == IF err = NilErr THEN ZapSkip ELSE ZapError(err)

Field(err) ==
    IF err = NilErr THEN ZapSkip
    ELSE LET r == AsStructured(err)
         IN  IF r.ok THEN ZapObject("error", r.err) ELSE ZapError(err)

(***************************************************************************)
(* Field list                                                              *)
(***************************************************************************)
Fields(x) ==
    LET fs == x.fields
        cause == Unwrap(x)
    IN  IF cause # NilErr
        THEN IF IsStructuredType(cause)
             THEN Append(fs, ZapObject("cause", cause))
             ELSE fs
        ELSE LET r == AsStructured(Unwrap(x))
             IN  IF r.ok THEN Append(fs, ZapObject("cause", r.err)) ELSE fs

\* Fields() appending the cause field to the receiver's own slice and keeping it
AfterFieldsAliased(x) == [x EXCEPT !.fields = Fields(x)]

\* the receiver after Fields(): a value receiver, and fs is a fresh slice
AfterFields(x) == x

(***************************************************************************)
(* JSON documents: the ordered key/value entries the encoder writes        *)
(***************************************************************************)
StrEntry(k, v) == [k |-> k, t |-> "string", str |-> v, int |-> 0, obj |-> <<>>]

IntEntry(k, n) == [k |-> k, t |-> "int", str |-> <<>>, int |-> n, obj |-> <<>>]

ObjEntry(k, d) == [k |-> k, t |-> "object", str |-> <<>>, int |-> 0, obj |-> d]

RECURSIVE MarshalLogObject(_), AddTo(_), AddFields(_)

\* zapcore.Field.AddTo: what one field writes to the encoder
AddTo(f) ==
    CASE f.Type = "Int64" -> <<IntEntry(f.Key, f.Integer)>>
      [] f.Type = "String" -> <<StrEntry(f.Key, f.Str)>>
      [] f.Type = "ObjectMarshaler" -> <<ObjEntry(f.Key, MarshalLogObject(f.Interface))>>
      [] f.Type = "Error" -> <<StrEntry(f.Key, ErrorOf(f.Interface))>>
      [] f.Type = "Skip" -> <<>>

\* for _, field := range fields { field.AddTo(oe) }
AddFields(fs) == IF fs = <<>> THEN <<>> ELSE AddTo(Head(fs)) \o AddFields(Tail(fs))

\* MarshalLogObject splicing a structured cause's entries into its own object
MarshalLogObjectMerged(x) ==
    <<StrEntry("msg", errorOrCause(x))>> \o AddFields(x.fields)
    \o (IF IsStructuredType(x.causer) THEN Tail(MarshalLogObject(x.causer)) ELSE <<>>)

MarshalLogObject(x) == <<StrEntry("msg", errorOrCause(x))>> \o AddFields(Fields(x))

\* jsonEncConf after init(): the production configuration with five keys blanked
jsonEncConf ==
    [MessageKey |-> "msg", LevelKey |-> "", TimeKey |-> "", NameKey |-> "",
     CallerKey |-> "", StacktraceKey |-> ""]

\* s.entry(): zapcore.Entry{Message: ...} and the field list
entry(x) ==
    [ent |-> [Message |-> errorOrCause(x), Level |-> <<"i", "n", "f", "o">>,
              Time |-> 0, LoggerName |-> <<>>, CallerDefined |-> FALSE, Stack |-> <<>>],
     fields |-> Fields(x)]

\* zap's JSON encoder EncodeEntry: the configured keys, the message, the fields
EncodeEntry(conf, en) ==
    (IF conf.LevelKey # "" THEN <<StrEntry(conf.LevelKey, en.ent.Level)>> ELSE <<>>)
    \o (IF conf.TimeKey # "" THEN <<IntEntry(conf.TimeKey, en.ent.Time)>> ELSE <<>>)
    \o (IF en.ent.LoggerName # <<>> /\ conf.NameKey # ""
        THEN <<StrEntry(conf.NameKey, en.ent.LoggerName)>> ELSE <<>>)
    \o (IF en.ent.CallerDefined /\ conf.CallerKey # ""
        THEN <<StrEntry(conf.CallerKey, <<>>)>> ELSE <<>>)
    \o (IF conf.MessageKey # "" THEN <<StrEntry(conf.MessageKey, en.ent.Message)>> ELSE <<>>)
    \o AddFields(en.fields)
    \o (IF en.ent.Stack # <<>> /\ conf.StacktraceKey # ""
        THEN <<StrEntry(conf.StacktraceKey, en.ent.Stack)>> ELSE <<>>)

\* JSONBuffer / MarshalJSON / JSON: the document, copied out of the buffer
JSON(x) == EncodeEntry(jsonEncConf, entry(x))

(***************************************************************************)
(* The program: it builds one error chain in e and queries it              *)
(***************************************************************************)
RECURSIVE Depth(_)
\* the number of error values on the chain of x
Depth(x) ==
    CASE x.kind = "nil" -> 0
      [] x.kind = "String" -> 1
      [] x.kind = "Foreign" -> 1 + Depth(x.inner)
      [] x.kind = "Structured" -> 1 + Depth(x.causer)

Init ==
    /\ e = NilErr
    /\ out = [op |-> "none"]
    /\ pc = "idle"
    /\ st = LoopEntry(NilErr)
    /\ steps = 0

\* err := erreur.String(m)
MkString(m) ==
    /\ pc = "idle"
    /\ e' = String(m)
    /\ out' = [op |-> "String", res |-> String(m)]
    /\ UNCHANGED <<pc, st, steps>>

\* err = a wrapper of another package around err (its Unwrap() returns err, maybe nil)
MkForeign ==
    /\ pc = "idle"
    /\ Depth(e) < MaxDepth
    /\ e' = Foreign(e)
    /\ out' = [op |-> "Foreign", res |-> Foreign(e)]
    /\ UNCHANGED <<pc, st, steps>>

\* err = erreur.Structured{}
MkZero ==
    /\ pc = "idle"
    /\ e' = ZeroStructured
    /\ out' = [op |-> "Zero", res |-> ZeroStructured]
    /\ UNCHANGED <<pc, st, steps>>

\* err = erreur.New(m, fs...)
CallNew(m, fs) ==
    /\ pc = "idle"
    /\ e' = New(m, fs)
    /\ out' = [op |-> "New", cause |-> NilErr, msg |-> m, fields |-> fs, res |-> New(m, fs)]
    /\ UNCHANGED <<pc, st, steps>>

\* err = erreur.Wrap(err, m, fs...)
CallWrap(m, fs) ==
    /\ pc = "idle"
    /\ Depth(e) < MaxDepth
    /\ e' = Wrap(e, m, fs)
    /\ out' = [op |-> "Wrap", cause |-> e, msg |-> m, fields |-> fs, res |-> Wrap(e, m, fs)]
    /\ UNCHANGED <<pc, st, steps>>

\* err = erreur.Structure(err, fs...)
CallStructure(fs) ==
    /\ pc = "idle"
    /\ Depth(e) < MaxDepth
    /\ e' = Structure(e, fs)
    /\ out' = [op |-> "Structure", cause |-> e, msg |-> <<>>, fields |-> fs,
               res |-> Structure(e, fs)]
    /\ UNCHANGED <<pc, st, steps>>

\* err.Error() on a structured err
CallError ==
    /\ pc = "idle"
    /\ IsStructuredType(e)
    /\ out' = [op |-> "Error", arg |-> e, res |-> Error(e)]
    /\ UNCHANGED <<e, pc, st, steps>>

\* err.(Structured).Fields()
CallFields ==
    /\ pc = "idle"
    /\ IsStructuredType(e)
    /\ out' = [op |-> "Fields", arg |-> e, res |-> Fields(e)]
    /\ e' = AfterFields(e)
    /\ UNCHANGED <<pc, st, steps>>

\* err.(Structured).MarshalLogObject(enc)
CallMarshalLogObject ==
    /\ pc = "idle"
    /\ IsStructuredType(e)
    /\ out' = [op |-> "MarshalLogObject", arg |-> e, res |-> MarshalLogObject(e)]
    /\ UNCHANGED <<e, pc, st, steps>>

\* err.(Structured).JSON()
CallJSON ==
    /\ pc = "idle"
    /\ IsStructuredType(e)
    /\ out' = [op |-> "JSON", arg |-> e, res |-> JSON(e)]
    /\ UNCHANGED <<e, pc, st, steps>>

\* erreur.Field(err)
CallField ==
    /\ pc = "idle"
    /\ out' = [op |-> "Field", arg |-> e, res |-> Field(e)]
    /\ UNCHANGED <<e, pc, st, steps>>

\* erreur.IsStructured(err)
CallIsStructured ==
    /\ pc = "idle"
    /\ out' = [op |-> "IsStructured", arg |-> e, res |-> IsStructured(e)]
    /\ UNCHANGED <<e, pc, st, steps>>

\* erreur.AsStructured(err): entry
SearchStart ==
    /\ pc = "idle"
    /\ pc' = "loop"
    /\ st' = LoopEntry(e)
    /\ steps' = 0
    /\ out' = [op |-> "AsStructured.enter", arg |-> e]
    /\ UNCHANGED e

\* erreur.AsStructured(err): one iteration of the for loop
SearchStep ==
    /\ pc = "loop"
    /\ ~st.done
    /\ steps <= MaxDepth + 1
    /\ st' = LoopBody(st)
    /\ steps' = steps + (IF st.e # NilErr THEN 1 ELSE 0)
    /\ UNCHANGED <<e, out, pc>>

\* erreur.AsStructured(err): the return after the loop
SearchReturn ==
    /\ pc = "loop"
    /\ st.done
    /\ pc' = "idle"
    /\ out' = [op |-> "AsStructured", arg |-> out.arg, res |-> LoopReturn(st),
               at |-> st.e, visited |-> steps]
    /\ st' = LoopEntry(NilErr)
    /\ steps' = 0
    /\ UNCHANGED e

Next ==
    \/ \E m \in Messages : MkString(m)
    \/ MkForeign
    \/ MkZero
    \/ \E m \in Messages, fs \in FieldLists : CallNew(m, fs)
    \/ \E m \in Messages, fs \in FieldLists : CallWrap(m, fs)
    \/ \E fs \in FieldLists : CallStructure(fs)
    \/ CallError
    \/ CallFields
    \/ CallMarshalLogObject
    \/ CallJSON
    \/ CallField
    \/ CallIsStructured
    \/ SearchStart
    \/ SearchStep
    \/ SearchReturn

Spec == Init /\ [][Next]_vars

\* the body of AsStructured is straight-line code: a started loop keeps running
LiveSpec == Init /\ [][Next]_vars /\ WF_vars(SearchStep) /\ WF_vars(SearchReturn)

(***************************************************************************)
(* Properties                                                              *)
(***************************************************************************)
Constructors == {"Structure", "New", "Wrap"}

\* a structured value with neither message nor cause
IsZero(x) == IsStructuredType(x) /\ x.err = NilErr /\ x.causer = NilErr

\* C1: Structure and Wrap return nil for a nil cause whatever the message and
\* fields; for a non-nil cause they return a non-nil structured error whose
\* Unwrap() and Cause() are the given cause and whose fields are the given list;
\* New never returns nil and its Unwrap() is nil.
ConstructionContract ==
    /\ out.op \in {"Structure", "Wrap"} =>
          IF out.cause = NilErr
          THEN out.res = NilErr
          ELSE /\ out.res # NilErr
               /\ IsStructuredType(out.res)
               /\ Unwrap(out.res) = out.cause
               /\ Cause(out.res) = out.cause
               /\ out.res.fields = out.fields
    /\ out.op = "New" =>
          /\ out.res # NilErr
          /\ IsStructuredType(out.res)
          /\ Unwrap(out.res) = NilErr
          /\ out.res.fields = out.fields

\* Wrap has returned a structured error around a non-nil cause, with two fields
ConstructionWitness ==
    /\ out.op = "Wrap"
    /\ out.cause # NilErr
    /\ Len(out.fields) = 2
    /\ out.res # NilErr

RECURSIVE ChainTexts(_)
\* the texts along a chain, outermost first: each message of a node that has one,
\* then the text of the first error that is not structured
ChainTexts(x) ==
    CASE x.kind = "nil" -> <<Panic>>
      [] x.kind = "String" -> <<x.text>>
      [] x.kind = "Foreign" -> <<x.text>>
      [] x.kind = "Structured" ->
            IF x.err # NilErr
            THEN <<x.err.text>> \o (IF x.causer = NilErr THEN <<>> ELSE ChainTexts(x.causer))
            ELSE ChainTexts(x.causer)

RECURSIVE JoinTexts(_)
\* texts joined by ": "
JoinTexts(ts) ==
    IF Len(ts) = 1 THEN ts[1] ELSE Cat(Cat(ts[1], Sep), JoinTexts(Tail(ts)))

RECURSIVE StripStructure(_)
\* the chain with every Structure node (no message of its own) taken out
StripStructure(x) ==
    IF x.kind # "Structured" THEN x
    ELSE IF x.err = NilErr /\ x.causer # NilErr THEN StripStructure(x.causer)
    ELSE IF x.causer = NilErr THEN x
    ELSE [x EXCEPT !.causer = StripStructure(x.causer)]

\* C2: Error() is the own message when there is no cause, message + ": " +
\* cause.Error() when both are set, and cause.Error() unchanged when there is no
\* own message; so over a chain it is the messages joined by ": " from the
\* outermost to the innermost, and a Structure node in the chain changes nothing.
ErrorDisplayString ==
    out.op = "Error" =>
        /\ out.arg.err # NilErr /\ out.arg.causer = NilErr =>
              out.res = out.arg.err.text
        /\ out.arg.err # NilErr /\ out.arg.causer # NilErr =>
              out.res = Cat(Cat(out.arg.err.text, Sep), ErrorOf(out.arg.causer))
        /\ out.arg.err = NilErr =>
              out.res = ErrorOf(out.arg.causer)
        /\ out.res = JoinTexts(ChainTexts(out.arg))
        /\ out.res = ErrorOf(StripStructure(out.arg))

\* Error() of Wrap(Structure(leaf "a"), "b") has returned "b: a"
ErrorDisplayWitness ==
    /\ out.op = "Error"
    /\ Depth(out.arg) = 3
    /\ out.arg.err # NilErr
    /\ IsStructuredType(out.arg.causer)
    /\ out.arg.causer.err = NilErr
    /\ out.res = <<"b", ":", " ", "a">>

SerializeOps == {"MarshalLogObject", "JSON"}

AmbientKeys == {"ts", "level", "caller", "stacktrace", "logger"}

RECURSIVE Panicked(_)
\* the call that was writing this document panicked on the way
Panicked(doc) ==
    \E i \in 1..Len(doc) :
        \/ doc[i].t = "string" /\ doc[i].str = Panic
        \/ doc[i].t = "object" /\ Panicked(doc[i].obj)

\* entry d is what the context field f of a node looks like in its document
OwnEntry(f, d) ==
    /\ d.k = f.Key
    /\ f.Type = "Int64" => d.t = "int" /\ d.int = f.Integer
    /\ f.Type = "String" => d.t = "string" /\ d.str = f.Str
    /\ f.Type \in {"Int64", "String"}

RECURSIVE DocShape(_, _)
\* doc is: "msg", then the own fields of x in their order, then, exactly when
\* Fields() surfaces a structured cause, a last "cause" object of the same shape
\* for that cause alone; and no ambient key
DocShape(x, doc) ==
    LET n == Len(x.fields)
        fs == Fields(x)
        surfaced == Len(fs) = n + 1 /\ fs[n + 1].Type = "ObjectMarshaler"
    IN  /\ Len(doc) >= 1
        /\ doc[1].k = "msg" /\ doc[1].t = "string"
        /\ Len(doc) = n + 1 + (IF surfaced THEN 1 ELSE 0)
        /\ \A i \in 1..n : OwnEntry(x.fields[i], doc[i + 1])
        /\ surfaced =>
              /\ doc[n + 2].k = "cause"
              /\ doc[n + 2].t = "object"
              /\ IsStructuredType(fs[n + 1].Interface)
              /\ DocShape(fs[n + 1].Interface, doc[n + 2].obj)
        /\ \A i \in 1..Len(doc) : doc[i].k \notin AmbientKeys

\* C3: the serialized object has "msg" first, then the node's own fields in
\* insertion order, then a "cause" key last exactly when a structured cause is
\* surfaced, holding a nested object of the same shape with that node's own
\* fields only; no timestamp, level, caller, stacktrace or logger key appears.
JSONDocumentShape ==
    out.op \in SerializeOps /\ ~Panicked(out.res) => DocShape(out.arg, out.res)

\* JSON() of a node with fields whose structured cause has the same first key
JSONDocumentWitness ==
    /\ out.op = "JSON"
    /\ ~Panicked(out.res)
    /\ Len(out.arg.fields) = 2
    /\ Len(out.res) = 4
    /\ out.res[4].k = "cause"
    /\ Len(out.res[4].obj) = 4
    /\ out.res[4].obj[2].k = out.res[2].k

\* C4: when the immediate cause is present and not structured, Fields() searches
\* its unwrap chain: own fields plus one "cause" object field for the first
\* structured error found, or the own fields alone when there is none.
FieldsSearchesForeignCause ==
    out.op = "Fields" /\ out.arg.causer # NilErr /\ ~IsStructuredType(out.arg.causer) =>
        LET r == AsStructured(out.arg.causer)
        IN  IF r.ok
            THEN out.res = Append(out.arg.fields, ZapObject("cause", r.err))
            ELSE out.res = out.arg.fields

RECURSIVE Contains(_, _)
\* text t has the characters of u somewhere in it
Contains(t, u) ==
    /\ Len(t) >= Len(u)
    /\ \/ SubSeq(t, 1, Len(u)) = u
       \/ Contains(Tail(t), u)

RECURSIVE HeadlineFlat(_)
\* every "msg" of the document, nested ones too, is free of ": "
HeadlineFlat(doc) ==
    /\ ~Contains(doc[1].str, Sep)
    /\ \A i \in 1..Len(doc) : doc[i].t = "object" => HeadlineFlat(doc[i].obj)

\* C5 as claimed: "msg" is the own message if set, else the Error() of the
\* immediate cause, and for every node it is one flat string with no
\* colon-joined text of deeper causes.
HeadlineAlwaysFlat ==
    out.op \in SerializeOps /\ ~Panicked(out.res) =>
        /\ out.res[1].str = (IF out.arg.err # NilErr THEN out.arg.err.text
                             ELSE ErrorOf(out.arg.causer))
        /\ HeadlineFlat(out.res)

RECURSIVE HeadlineOwnOrCause(_, _)
\* the "msg" of x's document, and of every nested cause document, is x's message
\* alone when x has one, and otherwise all of x's own display string
HeadlineOwnOrCause(x, doc) ==
    LET n == Len(x.fields)
    IN  /\ x.err # NilErr => doc[1].str = x.err.text /\ ~Contains(doc[1].str, Sep)
        /\ x.err = NilErr =>
              /\ doc[1].str = JoinTexts(ChainTexts(x))
              /\ Contains(doc[1].str, Sep) <=> Len(ChainTexts(x)) > 1
        /\ Len(doc) = n + 2 =>
              HeadlineOwnOrCause(Fields(x)[n + 1].Interface, doc[n + 2].obj)

\* C5 amended: "msg" is the own message alone when the node has one; for a node
\* without one it is the whole Error() string of the immediate cause, which is
\* colon-joined whenever that cause is itself a wrapped chain.
HeadlineMessage ==
    out.op \in SerializeOps /\ ~Panicked(out.res) => HeadlineOwnOrCause(out.arg, out.res)

\* JSON() of Structure(Wrap(leaf, m)) has written a colon-joined "msg"
HeadlineWitness ==
    /\ out.op = "JSON"
    /\ out.arg.err = NilErr
    /\ IsStructuredType(out.arg.causer)
    /\ out.res[1].str = <<"b", ":", " ", "a">>

RECURSIVE FirstStructured(_)
\* the first structured error on the chain of x, nil when there is none
FirstStructured(x) ==
    CASE x.kind = "nil" -> NilErr
      [] x.kind = "String" -> NilErr
      [] x.kind = "Foreign" -> FirstStructured(x.inner)
      [] x.kind = "Structured" -> x

RECURSIVE ContainsBuilt(_)
\* the chain of x holds, at some depth, a structured error a constructor built
ContainsBuilt(x) ==
    CASE x.kind = "nil" -> FALSE
      [] x.kind = "String" -> FALSE
      [] x.kind = "Foreign" -> ContainsBuilt(x.inner)
      [] x.kind = "Structured" -> ~IsZero(x) \/ ContainsBuilt(x.causer)

\* the chain of x has a first structured error and it is not the zero value
Found(x) == FirstStructured(x) # NilErr /\ ~IsZero(FirstStructured(x))

\* C6: AsStructured(e) returns ok with the first structured error on the chain of
\* e whenever the chain holds a constructor-built one at any depth, foreign
\* wrappers included; it returns not ok when there is none or e is nil; and
\* IsStructured(e) is true exactly when AsStructured(e) is ok.
AsStructuredFindsFirst ==
    /\ out.op = "AsStructured" =>
          /\ ContainsBuilt(out.arg) => out.res.ok /\ out.res.err = FirstStructured(out.arg)
          /\ FirstStructured(out.arg) = NilErr => ~out.res.ok
          /\ out.res.ok <=> Found(out.arg)
    /\ out.op = "IsStructured" => (out.res <=> Found(out.arg))

\* AsStructured has found a structured error behind two foreign wrappers
AsStructuredWitness ==
    /\ out.op = "AsStructured"
    /\ out.arg.kind = "Foreign"
    /\ out.arg.inner.kind = "Foreign"
    /\ out.res.ok
    /\ out.res.err = out.arg.inner.inner

\* C7: Field(nil) is a skip field that writes nothing; for an err whose chain
\* holds a structured error it is an object field keyed "error" around the first
\* structured error found; for every other err it is an error field keyed "error"
\* carrying err itself, written as err.Error().
FieldThreeWay ==
    out.op = "Field" =>
        /\ out.arg = NilErr =>
              out.res.Type = "Skip" /\ AddFields(<<out.res>>) = <<>>
        /\ out.arg # NilErr /\ Found(out.arg) =>
              out.res = ZapObject("error", FirstStructured(out.arg))
        /\ out.arg # NilErr /\ ~Found(out.arg) =>
              /\ out.res.Type = "Error"
              /\ out.res.Key = "error"
              /\ out.res.Interface = out.arg
              /\ AddFields(<<out.res>>) = <<StrEntry("error", ErrorOf(out.arg))>>

\* Field(err), err a foreign wrapper, has returned an object field around the
\* structured error inside it
FieldWitness ==
    /\ out.op = "Field"
    /\ out.arg.kind = "Foreign"
    /\ out.res.Type = "ObjectMarshaler"
    /\ out.res.Interface = out.arg.inner

ReadOps == {"Error", "Fields", "MarshalLogObject", "JSON"}

\* a step that ends in a finished Error(), Fields(), MarshalLogObject() or JSON()
\* leaves the error as it was, gives what the same call gave just before, and
\* Fields() starts with the stored fields in their order
ReadOnlyStep ==
    out'.op \in ReadOps =>
        /\ e' = e
        /\ out'.arg = e
        /\ out.op = out'.op => out'.res = out.res
        /\ out'.op = "Fields" =>
              /\ Len(out'.res) >= Len(e.fields)
              /\ SubSeq(out'.res, 1, Len(e.fields)) = e.fields

RECURSIVE StopPos(_)
\* how many chain nodes are visited up to the first structured one or the end
StopPos(x) ==
    CASE x.kind = "nil" -> 0
      [] x.kind = "String" -> 1
      [] x.kind = "Foreign" -> 1 + StopPos(x.inner)
      [] x.kind = "Structured" -> 1

RECURSIVE StopAt(_)
\* where the walk ends: the first structured node, else the end of the chain
StopAt(x) ==
    CASE x.kind = "nil" -> x
      [] x.kind = "String" -> x
      [] x.kind = "Foreign" -> StopAt(x.inner)
      [] x.kind = "Structured" -> x

\* C9: on every finite acyclic chain the AsStructured loop stops, visiting each
\* chain node at most once, and it stops at the first structured node without
\* walking past it.
SearchTerminates ==
    /\ [](pc = "loop" => steps <= Depth(out.arg))
    /\ [](out.op = "AsStructured" =>
             out.visited = StopPos(out.arg) /\ out.at = StopAt(out.arg))
    /\ (pc = "loop") ~> (pc = "idle")

\* AsStructured has stopped at a structured node that has a cause below it
SearchWitness ==
    /\ out.op = "AsStructured"
    /\ out.arg.kind = "Foreign"
    /\ out.visited = 2
    /\ Depth(out.arg) = 3

RECURSIVE ZeroBelow(_)
\* the structured errors from x downwards lead to the zero value
ZeroBelow(x) == IsStructuredType(x) /\ (IsZero(x) \/ ZeroBelow(x.causer))

\* what AsStructured and IsStructured say of a chain whose first structured node
\* is the zero value
ZeroNeverFound ==
    /\ out.op = "AsStructured" /\ IsZero(FirstStructured(out.arg)) => ~out.res.ok
    /\ out.op = "IsStructured" /\ IsZero(FirstStructured(out.arg)) => ~out.res

\* every non-nil value the constructors return has a message or a cause
BuiltHasMessageOrCause ==
    out.op \in Constructors /\ out.res # NilErr =>
        out.res.err # NilErr \/ out.res.causer # NilErr

====
